---- MODULE Spec2Model ----
(***************************************************************************)
(* A model of the swagger-to-postman agent's core: the content-addressed   *)
(* embedding cache (backend/embeddings/embedding_cache.py), the embedding  *)
(* engine (embedding_engine.py), the swagger chunker                       *)
(* (backend/chunking/swagger_chunker.py) and the vector store wrapper      *)
(* (backend/embeddings/vector_store.py).                                   *)
(***************************************************************************)
EXTENDS Integers, Sequences, FiniteSets, TLC

VARIABLES
    indexFile,  \* content of <cache_dir>/index.json
    lockBusy,   \* index.lock is held by a foreign process for longer than the timeout
    handle,     \* cache handle slot -> [state, cache]: an EmbeddingCache object
    lastOp,     \* the last cache/engine call and how it ended
    putLog,     \* history: the (text, metadata) arguments of every add() so far
    cleared,    \* history: keys a clear() took off the disk and no add() was called for since
    opsLeft,    \* number of calls still to be made in this behaviour (bounded)
    lastEmbed,  \* the last embed_texts call: its input, output and encode() traffic
    embedded,   \* history: (text, type) of the chunks embed_texts returned since the last clear()
    known,      \* history: per handle, `embedded` as it was when the handle loaded the index
    swagger,    \* the parsed specification document handed to the chunkers
    chunker,    \* SwaggerChunker instance -> [chunks, calls]: self.chunks and calls made
    lastExtract, \* the last extract_chunks call: instance, result or exception
    walk,        \* an extract_chunks call taken step by step: where _resolve_ref stands
    db,          \* the vector database: collection name -> [exists, ident, records]
    collections, \* VectorStore._collections: name -> identity of the cached handle (0: none)
    uuidNext,    \* the next fresh value uuid4() / the database hands out
    loads,       \* history: name -> get_or_create_collection calls since the name's last reset
    lastStore    \* the last VectorStore call: its arguments' sizes and how it ended

cacheVars  == <<indexFile, lockBusy, handle, lastOp, putLog, cleared>>
engineVars == <<lastEmbed, embedded, known>>
chunkVars  == <<swagger, chunker, lastExtract, walk>>
storeVars  == <<db, collections, uuidNext, loads, lastStore>>

vars == <<cacheVars, engineVars, chunkVars, storeVars, opsLeft>>

-----------------------------------------------------------------------------
(* Bounds of the model.                                                    *)

\* number of cache calls explored in one behaviour of SpecCache
MaxOps == 4

\* number of engine calls explored in one behaviour of SpecEngine
MaxEngineOps == 6

\* longest chunk list handed to embed_texts
MaxChunks == 2

\* number of extract_chunks calls explored in one behaviour of SpecChunker
MaxExtracts == 3

\* number of vector store calls explored in one behaviour of SpecStore
MaxStoreOps == 2

\* longest documents / embeddings / metadatas / ids list handed to the store
MaxDocs == 3

\* largest n_results handed to query_similar
MaxResults == 2

-----------------------------------------------------------------------------
(* Values.                                                                 *)

Handles == {"h1", "h2"}

\* characters; " " stands for the whitespace str.strip() removes
Whitespace == {" ", "\n\n"}

\* texts are sequences of characters
Texts == { <<"a">>, <<" ", "a", " ">>, <<"b">> }

\* embedding vectors (lists of floats)
Vectors == { <<1, 0>>, <<0, 1>> }

\* A metadata argument: None, or a dict given as its items in insertion order.
NoneMeta == [none |-> TRUE, items |-> <<>>]
Dict(items) == [none |-> FALSE, items |-> items]

MetaInputs ==
    { NoneMeta,
      Dict(<< <<"type", "swagger">> >>),
      Dict(<< <<"type", "postman">> >>),
      Dict(<< <<"type", "swagger">>, <<"origin", "x">> >>),
      Dict(<< <<"origin", "x">>, <<"type", "swagger">> >>) }

\* the empty mapping {}
EmptyMap == [k \in {} |-> <<>>]

-----------------------------------------------------------------------------
(* EmbeddingCache._compute_hash                                            *)

\* str.strip(): drop leading and trailing whitespace characters
RECURSIVE LStrip(_)
LStrip(s) ==
    IF s # <<>> /\ Head(s) \in Whitespace THEN LStrip(Tail(s)) ELSE s

RECURSIVE RStrip(_)
RStrip(s) ==
    IF s # <<>> /\ s[Len(s)] \in Whitespace
    THEN RStrip(SubSeq(s, 1, Len(s) - 1))
    ELSE s

\* a strip that forgets the leading side
StripNoLeft(s) == RStrip(s)

Strip(s) == RStrip(LStrip(s))

\* `metadata or {}`
MetaOrEmpty(md) == IF md.none \/ md.items = <<>> THEN <<>> ELSE md.items

\* the order json.dumps(sort_keys=True) puts the keys in (string order)
KeyRank(k) ==
    CASE k = "origin" -> 1
      [] k = "type"   -> 2
      [] OTHER        -> 3

\* insert one item into a key-sorted item list
RECURSIVE InsertSorted(_, _)
InsertSorted(item, sorted) ==
    IF sorted = <<>> THEN <<item>>
    ELSE IF KeyRank(item[1]) <= KeyRank(Head(sorted)[1])
         THEN <<item>> \o sorted
         ELSE <<Head(sorted)>> \o InsertSorted(item, Tail(sorted))

RECURSIVE SortKeysRec(_)
SortKeysRec(items) ==
    IF items = <<>> THEN <<>>
    ELSE InsertSorted(Head(items), SortKeysRec(Tail(items)))

\* json.dumps(..., sort_keys=True) of a dict: its items in key order
SortKeys(items) == SortKeysRec(items)

\* the canonical form that is serialised
Normalized(text, md) == [text |-> Strip(text), metadata |-> SortKeys(MetaOrEmpty(md))]

\* a fingerprint of the text alone
ComputeHashNoMetadata(text, md) == [text |-> Strip(text), metadata |-> <<>>]

\* SHA-256 of the canonical JSON, modelled as collision-free: the digest
\* stands for the canonical form it was computed from.
ComputeHash(text, md) == Normalized(text, md)

-----------------------------------------------------------------------------
(* The index file and EmbeddingCache._load_index / _save_index             *)

Absent      == [kind |-> "absent", map |-> EmptyMap]
Malformed   == [kind |-> "malformed", map |-> EmptyMap]   \* not JSON (e.g. truncated)
Undecodable == [kind |-> "undecodable", map |-> EmptyMap] \* bytes that are not UTF-8
IndexOf(m)  == [kind |-> "index", map |-> m]              \* json.dump of a mapping

Returned(m) == [raised |-> "", value |-> m]
Raised(exc) == [raised |-> exc, value |-> EmptyMap]

\* _load_index: {} when the file does not exist; under the lock, json.load;
\* JSONDecodeError and TimeoutError are caught and give {}.
LoadIndex(file, busy) ==
    IF file.kind = "absent" THEN Returned(EmptyMap)
    ELSE IF busy THEN Returned(EmptyMap)
    ELSE CASE file.kind = "index"       -> Returned(file.map)
           [] file.kind = "malformed"   -> Returned(EmptyMap)
           [] file.kind = "undecodable" -> Raised("UnicodeDecodeError")

\* m[k] = v
Store(m, k, v) == (k :> v) @@ m

\* dict.get(key): the value or None
NoneVec == [found |-> FALSE, vec |-> <<>>]
SomeVec(v) == [found |-> TRUE, vec |-> v]
DictGet(m, k) == IF k \in DOMAIN m THEN SomeVec(m[k]) ELSE NoneVec

\* EmbeddingCache.get on the in-memory cache m
CacheGet(m, text, md) == DictGet(m, ComputeHash(text, md))

\* EmbeddingCache.size
CacheSize(m) == Cardinality(DOMAIN m)

NoHandle == [state |-> "none", cache |-> EmptyMap]
Live(m)  == [state |-> "live", cache |-> m]

NoOp == [op |-> "none", h |-> "", text |-> <<>>, md |-> NoneMeta, vec |-> <<>>,
         raised |-> "", result |-> NoneVec]

Op(name, h, text, md, vec, raised, result) ==
    [op |-> name, h |-> h, text |-> text, md |-> md, vec |-> vec,
     raised |-> raised, result |-> result]

\* no embed_texts call yet
NoEmbed == [h |-> "", input |-> <<>>, output |-> <<>>, looked |-> <<>>,
            encoded |-> <<>>, calls |-> 0, failed |-> FALSE, raised |-> ""]

\* the collection names (VectorStoreCollections)
CollectionNames == {"swagger_embeddings", "postman_embeddings"}

\* no vector store call yet, an empty database
NoStore == [op |-> "none", name |-> "", nDocs |-> 0, nEmb |-> 0, nMeta |-> 0,
            nIds |-> 0, metaGiven |-> FALSE, idsGiven |-> FALSE, raised |-> "",
            queries |-> <<>>, n |-> 0, result |-> <<>>]
NoCollection == [exists |-> FALSE, ident |-> 0, records |-> <<>>]
StoreIdle ==
    /\ db = [n \in CollectionNames |-> NoCollection]
    /\ collections = [n \in CollectionNames |-> 0]
    /\ uuidNext = 1
    /\ lastStore = NoStore
    /\ loads = [n \in CollectionNames |-> 0]

\* no cache handle, no engine call yet
CacheIdle ==
    /\ lockBusy = FALSE
    /\ handle = [h \in Handles |-> NoHandle]
    /\ lastOp = NoOp
    /\ putLog = {}
    /\ cleared = {}
    /\ lastEmbed = NoEmbed
    /\ embedded = {}
    /\ known = [h \in Handles |-> {}]

\* no document, no chunker at work
NoExtract == [i |-> 0, raised |-> "", msg |-> <<>>, result |-> <<>>]
NoWalk == [pc |-> "idle", pending |-> <<>>, ref |-> <<>>, use |-> "", parts |-> <<>>,
           at |-> <<>>, raised |-> ""]
ChunkerIdle ==
    /\ swagger = [paths |-> <<>>]
    /\ chunker = <<>>
    /\ lastExtract = NoExtract
    /\ walk = NoWalk

-----------------------------------------------------------------------------
(* Cache operations                                                        *)

\* the keys of the entries index.json holds
OnDisk(file) == IF file.kind = "index" THEN DOMAIN file.map ELSE {}

\* EmbeddingCache(cache_dir): a new handle object in slot h
Construct(h) ==
    LET r == LoadIndex(indexFile, lockBusy) IN
    /\ handle' = [handle EXCEPT ![h] =
                    IF r.raised = "" THEN Live(r.value) ELSE NoHandle]
    /\ lastOp' = Op("init", h, <<>>, NoneMeta, <<>>, r.raised, NoneVec)
    /\ known' = [known EXCEPT ![h] = IF lockBusy THEN {} ELSE embedded]
    /\ opsLeft > 0 /\ opsLeft' = opsLeft - 1
    /\ UNCHANGED <<chunkVars, storeVars>>
    /\ UNCHANGED <<indexFile, lockBusy, putLog, cleared, lastEmbed, embedded>>

\* FileLock(lock_file, timeout=10): "" once acquired, Timeout when another
\* process holds the lock for the whole ten seconds
AcquireLockUnguarded(busy) == ""

AcquireLock(busy) == IF busy THEN "Timeout" ELSE ""

\* _save_index: under the lock, rewrite the file with the handle's whole _cache
SavedIndexBuffered(file, m) == file

SavedIndex(file, m) == IndexOf(m)

\* index_file.unlink() when the file exists
UnlinkSkipped(file) == file

Unlinked(file) == Absent

\* EmbeddingCache.add: _cache[key] = embedding, then _save_index()
Add(h, text, md, vec) ==
    LET m == Store(handle[h].cache, ComputeHash(text, md), vec) IN
    /\ handle[h].state = "live"
    /\ handle' = [handle EXCEPT ![h] = Live(m)]
    /\ IF AcquireLock(lockBusy) # ""
       THEN /\ indexFile' = indexFile
            /\ lastOp' = Op("add", h, text, md, vec, AcquireLock(lockBusy), NoneVec)
       ELSE /\ indexFile' = SavedIndex(indexFile, m)
            /\ lastOp' = Op("add", h, text, md, vec, "", NoneVec)
    /\ putLog' = putLog \cup {[text |-> text, md |-> md]}
    /\ cleared' = cleared \ {ComputeHash(text, md)}
    /\ opsLeft > 0 /\ opsLeft' = opsLeft - 1
    /\ UNCHANGED <<chunkVars, storeVars>>
    /\ UNCHANGED <<lockBusy, lastEmbed, embedded, known>>

\* EmbeddingCache.get
Get(h, text, md) ==
    /\ handle[h].state = "live"
    /\ lastOp' = Op("get", h, text, md, <<>>, "", CacheGet(handle[h].cache, text, md))
    /\ opsLeft > 0 /\ opsLeft' = opsLeft - 1
    /\ UNCHANGED <<chunkVars, storeVars>>
    /\ UNCHANGED <<indexFile, lockBusy, handle, putLog, cleared, lastEmbed, embedded, known>>

\* EmbeddingCache.clear: _cache.clear(), unlink the index file (no lock taken)
Clear(h) ==
    /\ handle[h].state = "live"
    /\ handle' = [handle EXCEPT ![h] = Live(EmptyMap)]
    /\ indexFile' = Unlinked(indexFile)
    /\ lastOp' = Op("clear", h, <<>>, NoneMeta, <<>>, "", NoneVec)
    /\ embedded' = {}
    /\ known' = [x \in Handles |-> {}]
    /\ opsLeft > 0 /\ opsLeft' = opsLeft - 1
    /\ UNCHANGED <<chunkVars, storeVars>>
    /\ cleared' = cleared \cup OnDisk(indexFile)
    /\ UNCHANGED <<lockBusy, putLog, lastEmbed>>

\* another process takes or releases index.lock (FileLock, timeout=10)
ForeignLock ==
    /\ lockBusy' = ~lockBusy
    /\ lastOp' = NoOp
    /\ opsLeft > 0 /\ opsLeft' = opsLeft - 1
    /\ UNCHANGED <<chunkVars, storeVars>>
    /\ UNCHANGED <<indexFile, handle, putLog, cleared, lastEmbed, embedded, known>>

InitCache ==
    /\ indexFile \in {Absent, Malformed, Undecodable}
    /\ CacheIdle
    /\ ChunkerIdle
    /\ StoreIdle
    /\ opsLeft = MaxOps

NextCache ==
    \/ \E h \in Handles : Construct(h)
    \/ \E h \in Handles, t \in Texts, md \in MetaInputs, v \in Vectors : Add(h, t, md, v)
    \/ \E h \in Handles, t \in Texts, md \in MetaInputs : Get(h, t, md)
    \/ \E h \in Handles : Clear(h)
    \/ ForeignLock

SpecCache == InitCache /\ [][NextCache]_vars

-----------------------------------------------------------------------------
(* Properties of the cache                                                 *)

IsBlank(s) == \A i \in DOMAIN s : s[i] \in Whitespace

\* s and t differ only in leading/trailing whitespace
TrimEquivalent(s, t) ==
    \E i, j \in 0..Len(s), k, l \in 0..Len(t) :
        /\ SubSeq(s, i + 1, j) = SubSeq(t, k + 1, l)
        /\ IsBlank(SubSeq(s, 1, i)) /\ IsBlank(SubSeq(s, j + 1, Len(s)))
        /\ IsBlank(SubSeq(t, 1, k)) /\ IsBlank(SubSeq(t, l + 1, Len(t)))

\* the dict a metadata argument denotes, as a set of items (None is {})
ItemSet(md) == IF md.none THEN {} ELSE { md.items[i] : i \in DOMAIN md.items }

\* the metadata arguments differ at most in key order
SameItems(md1, md2) == ItemSet(md1) = ItemSet(md2)

\* the value under "type", or "" when there is none
TypeOf(md) ==
    IF \E it \in ItemSet(md) : it[1] = "type"
    THEN (CHOOSE it \in ItemSet(md) : it[1] = "type")[2]
    ELSE ""

IndexEntries == IF indexFile.kind = "index" THEN DOMAIN indexFile.map ELSE {}

\* C1 (as claimed): an entry of the persisted index stays in the persisted
\* index across every step that is not a clear(), whatever handle acts.
C1_PersistedEntryStays ==
    [][ lastOp'.op # "clear" =>
            \A k \in IndexEntries : k \in IndexEntries' ]_vars

\* C3, round trip: right after add(text, vector, metadata) on a handle, get
\* on that handle with any text that differs only in surrounding whitespace
\* and any metadata that differs only in key order returns the vector.
C3_PutThenGet ==
    lastOp.op = "add" =>
        \A t \in Texts, md \in MetaInputs :
            (TrimEquivalent(t, lastOp.text) /\ SameItems(md, lastOp.md))
                => CacheGet(handle[lastOp.h].cache, t, md) = SomeVec(lastOp.vec)

\* C3, idempotence: an add that repeats the handle's previous add (same
\* text up to surrounding whitespace, same metadata up to key order, same
\* vector) leaves size() unchanged.
C3_SecondPutKeepsSize ==
    (/\ lastOp.op = "add" /\ lastOp'.op = "add" /\ lastOp'.h = lastOp.h
     /\ TrimEquivalent(lastOp'.text, lastOp.text)
     /\ SameItems(lastOp'.md, lastOp.md)
     /\ lastOp'.vec = lastOp.vec)
        => CacheSize(handle'[lastOp.h].cache) = CacheSize(handle[lastOp.h].cache)

\* C3: cache round trip and idempotence (both parts above).
C3_RoundTripIdempotent == [](C3_PutThenGet) /\ [][C3_SecondPutKeepsSize]_vars

\* C3 witness: a second add with an equivalent, differently written key has
\* just returned and the handle still holds one entry.
C3_Witness ==
    /\ lastOp.op = "add" /\ lastOp.raised = ""
    /\ lastOp.text = <<" ", "a", " ">>
    /\ lastOp.md = Dict(<< <<"origin", "x">>, <<"type", "swagger">> >>)
    /\ putLog = { [text |-> <<"a">>,
                   md |-> Dict(<< <<"type", "swagger">>, <<"origin", "x">> >>)],
                  [text |-> lastOp.text, md |-> lastOp.md] }
    /\ opsLeft = MaxOps - 3
    /\ CacheSize(handle[lastOp.h].cache) = 1
    /\ CacheGet(handle[lastOp.h].cache, <<"a">>,
                Dict(<< <<"type", "swagger">>, <<"origin", "x">> >>)) = SomeVec(lastOp.vec)

\* C4, no hit without a put under that type: whenever get(text, md) finds
\* an entry and md carries a type, some add was made for that text (up to
\* surrounding whitespace) under the same type.
C4_HitNeedsPutOfType ==
    \A h \in Handles, t \in Texts, md \in MetaInputs :
        (TypeOf(md) # "" /\ CacheGet(handle[h].cache, t, md).found)
            => \E p \in putLog : TrimEquivalent(p.text, t) /\ TypeOf(p.md) = TypeOf(md)

\* C4, no overwrite: an add under one type leaves what get returns for the
\* same text under every other type as it was.
C4_PutKeepsOtherTypes ==
    lastOp'.op = "add" =>
        \A t \in Texts, md \in MetaInputs :
            (/\ TrimEquivalent(t, lastOp'.text)
             /\ TypeOf(md) # "" /\ TypeOf(lastOp'.md) # ""
             /\ TypeOf(md) # TypeOf(lastOp'.md))
                => CacheGet(handle'[lastOp'.h].cache, t, md)
                       = CacheGet(handle[lastOp'.h].cache, t, md)

\* C4: identical text under different type metadata never collides.
C4_TypesNeverCollide == [](C4_HitNeedsPutOfType) /\ [][C4_PutKeepsOtherTypes]_vars

\* C4 witness: the text was put under "swagger" and then under "postman";
\* the handle holds both entries, each with its own vector.
C4_Witness ==
    /\ lastOp.op = "add" /\ lastOp.text = <<"a">>
    /\ lastOp.md = Dict(<< <<"type", "postman">> >>)
    /\ lastOp.vec = <<0, 1>>
    /\ CacheGet(handle[lastOp.h].cache, <<"a">>, Dict(<< <<"type", "swagger">> >>))
           = SomeVec(<<1, 0>>)
    /\ CacheGet(handle[lastOp.h].cache, <<"a">>, lastOp.md) = SomeVec(<<0, 1>>)

\* C11, on disk: when add(text, vector, metadata) returns normally the index
\* file holds the entry of that key with that vector.
C11_AddReachesDisk ==
    (lastOp.op = "add" /\ lastOp.raised = "")
        => /\ indexFile.kind = "index"
           /\ DictGet(indexFile.map, ComputeHash(lastOp.text, lastOp.md)) = SomeVec(lastOp.vec)

\* C11, next handle: a cache constructed right after such an add returns the
\* vector from get.
C11_NextHandleHits ==
    (lastOp.op = "add" /\ lastOp.raised = "" /\ lastOp'.op = "init")
        => /\ lastOp'.raised = ""
           /\ CacheGet(handle'[lastOp'.h].cache, lastOp.text, lastOp.md) = SomeVec(lastOp.vec)

\* C11: add persists immediately (both parts above).
C11_PutPersistsImmediately == [](C11_AddReachesDisk) /\ [][C11_NextHandleHits]_vars

\* C11 witness: h1 was constructed and added an entry, then h2 was
\* constructed on the same directory and holds that entry.
C11_Witness ==
    /\ opsLeft = MaxOps - 3
    /\ lastOp.op = "init" /\ lastOp.h = "h2" /\ lastOp.raised = ""
    /\ handle["h1"].state = "live" /\ CacheSize(handle["h1"].cache) = 1
    /\ handle["h2"].cache = handle["h1"].cache
    /\ indexFile = IndexOf(handle["h1"].cache)

\* C12: an add that finds the index lock held for the whole timeout ends
\* with the lock-timeout error, and the index file is as it was before.
C12_LockTimeoutLeavesDisk ==
    [][ (lastOp'.op = "add" /\ lockBusy)
            => (lastOp'.raised = "Timeout" /\ indexFile' = indexFile) ]_vars

\* C12 witness: an add has timed out over an index that holds an entry of
\* an earlier add.
C12_Witness ==
    /\ lastOp.op = "add" /\ lastOp.raised = "Timeout" /\ lockBusy
    /\ indexFile.kind = "index" /\ indexFile.map # EmptyMap
    /\ CacheSize(handle[lastOp.h].cache) > Cardinality(DOMAIN indexFile.map)

\* C13, the handle and the disk: right after clear() the handle's size() is 0,
\* get finds nothing under any key, and the index file is gone.
C13_ClearedHandleAndDisk ==
    lastOp.op = "clear"
        => /\ CacheSize(handle[lastOp.h].cache) = 0
           /\ \A t \in Texts, md \in MetaInputs :
                  CacheGet(handle[lastOp.h].cache, t, md) = NoneVec
           /\ LoadIndex(indexFile, lockBusy) = Returned(EmptyMap)

\* C13, next handle: a cache constructed right after clear() loads no entry.
C13_NextHandleEmpty ==
    (lastOp.op = "clear" /\ lastOp'.op = "init")
        => /\ lastOp'.raised = ""
           /\ CacheSize(handle'[lastOp'.h].cache) = 0

\* C13: clear() empties the in-memory and the on-disk state.
C13_ClearEmptiesBoth == [](C13_ClearedHandleAndDisk) /\ [][C13_NextHandleEmpty]_vars

\* C13 witness: h1 was constructed, added an entry and cleared; then h2 was
\* constructed and is empty.
C13_Witness ==
    /\ opsLeft = MaxOps - 4
    /\ putLog # {}
    /\ lastOp.op = "init" /\ lastOp.h = "h2" /\ lastOp.raised = ""
    /\ handle["h1"].state = "live" /\ CacheSize(handle["h1"].cache) = 0
    /\ CacheSize(handle["h2"].cache) = 0
    /\ indexFile = Absent

\* C26 (as claimed): an add that ends with the lock timeout leaves the
\* handle's in-memory cache as it was: size() and every get are unchanged.
C26_FailedPutLeavesMemory ==
    [][ (lastOp'.op = "add" /\ lastOp'.raised # "")
            => /\ CacheSize(handle'[lastOp'.h].cache) = CacheSize(handle[lastOp'.h].cache)
               /\ \A t \in Texts, md \in MetaInputs :
                      CacheGet(handle'[lastOp'.h].cache, t, md)
                          = CacheGet(handle[lastOp'.h].cache, t, md) ]_vars

\* C10 (as claimed): constructing a cache over a corrupted index file
\* returns normally with a cold cache, size() = 0.
C10_CorruptIndexStartsCold ==
    (lastOp.op = "init" /\ indexFile.kind \in {"malformed", "undecodable"})
        => /\ lastOp.raised = ""
           /\ handle[lastOp.h].state = "live"
           /\ CacheSize(handle[lastOp.h].cache) = 0

-----------------------------------------------------------------------------
(* EmbeddingEngine.embed_texts                                             *)

\* ChunkType.values(): [str(member) for member in cls]; str() of a member
\* of a (str, Enum) class is "ClassName.MEMBER", not the member's value.
ChunkTypeValues ==
    { "ChunkType.SWAGGER", "ChunkType.POSTMAN", "ChunkType.TEXT",
      "ChunkType.ENDPOINT_DESCRIPTION", "ChunkType.PARAMETER",
      "ChunkType.REQUEST_BODY_SCHEMA", "ChunkType.RESPONSE_SCHEMA",
      "ChunkType.ENUM_TEST_CASE", "ChunkType.BOOLEAN_FLAG_TEST_CASE",
      "ChunkType.ERROR_CODE_CASE" }

\* ChunkType.TEXT
ChunkTypeText == "free_text"

\* a chunk dict: `has` is the set of keys it carries
Chunk(id, type, text, has) ==
    [id |-> id, type |-> type, text |-> text, has |-> has, embedding |-> <<>>]

AllKeys == {"id", "type", "text"}

ChunkPool ==
    { Chunk("c1", "swagger", <<"a">>, AllKeys),
      Chunk("c2", "ChunkType.POSTMAN", <<"b">>, AllKeys),
      Chunk("c3", "postman", <<>>, {"id", "type"}) }

ChunkLists == UNION { [1..n -> ChunkPool] : n \in 0..MaxChunks }

\* all(k in chunk for k in ("id", "type", "text"))
IsValidChunkIdOnly(c) == "id" \in c.has

IsValidChunk(c) == AllKeys \subseteq c.has

\* unknown type -> ChunkType.TEXT
CoerceType(c) ==
    IF c.type \notin ChunkTypeValues THEN [c EXCEPT !.type = ChunkTypeText] ELSE c

\* the first loop: validated_chunks
Validated(chunks) ==
    LET valid == SelectSeq(chunks, IsValidChunk)
    IN  [i \in 1..Len(valid) |-> CoerceType(valid[i])]

TypeMeta(c) == Dict(<< <<"type", c.type>> >>)

\* `cached = self.cache.get(...)`, `if cached:`
Cached(m, c) == CacheGet(m, c.text, TypeMeta(c))
IsHit(m, c) == Cached(m, c).found /\ Cached(m, c).vec # <<>>

\* the second loop: the cache hits, with the embedding attached, in order
RECURSIVE HitChunks(_, _)
HitChunks(m, chunks) ==
    IF chunks = <<>> THEN <<>>
    ELSE IF IsHit(m, Head(chunks))
         THEN <<[Head(chunks) EXCEPT !.embedding = Cached(m, Head(chunks)).vec]>>
                  \o HitChunks(m, Tail(chunks))
         ELSE HitChunks(m, Tail(chunks))

\* the second loop: to_embed
RECURSIVE MissChunks(_, _)
MissChunks(m, chunks) ==
    IF chunks = <<>> THEN <<>>
    ELSE IF IsHit(m, Head(chunks))
         THEN MissChunks(m, Tail(chunks))
         ELSE <<Head(chunks)>> \o MissChunks(m, Tail(chunks))

\* the embedding service: one vector per text, the same for the same text
EncodeText(t) ==
    CASE t = <<"a">> -> <<1, 0>>
      [] t = <<"b">> -> <<0, 1>>
      [] OTHER       -> <<1, 1>>

\* chunk["embedding"] = embeddings[i].tolist()
Embed(c) == [c EXCEPT !.embedding = EncodeText(c.text)]

EmbedAll(chunks) == [i \in 1..Len(chunks) |-> Embed(chunks[i])]

\* the cache after cache.add for each chunk of to_embed, in order
RECURSIVE AddAll(_, _)
AddAll(m, chunks) ==
    IF chunks = <<>> THEN m
    ELSE AddAll(Store(m, ComputeHash(Head(chunks).text, TypeMeta(Head(chunks))),
                      Head(chunks).embedding),
                Tail(chunks))

\* the handle's _cache when embed_texts ends: the write-back loop runs only
\* after model.encode has returned
WrittenBackAlways(m, fresh, raised) == AddAll(m, fresh)

WrittenBack(m, fresh, raised) == IF raised THEN m ELSE AddAll(m, fresh)

\* the keys cache.add is called with for the chunks
PutKeys(chunks) == { ComputeHash(chunks[i].text, TypeMeta(chunks[i])) : i \in DOMAIN chunks }

PutArgs(chunks) == { [text |-> chunks[i].text, md |-> TypeMeta(chunks[i])] : i \in DOMAIN chunks }

\* enriched_chunks: the hits, then the newly embedded chunks
Enriched(hits, fresh) == hits \o fresh

\* the valid input chunks, as (text, type) pairs
ValidPairs(chunks) ==
    { <<chunks[i].text, chunks[i].type>> : i \in { j \in DOMAIN chunks : IsValidChunk(chunks[j]) } }

\* EmbeddingEngine.embed_texts on the engine whose cache is handle h.
\* encodeFails: the embedding service raises.
EmbedTexts(h, chunks, encodeFails) ==
    LET m      == handle[h].cache
        valid  == Validated(chunks)
        hits   == HitChunks(m, valid)
        misses == MissChunks(m, valid)
        fresh  == EmbedAll(misses)
        texts  == [i \in 1..Len(misses) |-> misses[i].text]
        calls  == IF misses = <<>> THEN 0 ELSE 1
        rec(out, raised) ==
            [h |-> h, input |-> chunks, output |-> out,
             looked |-> [i \in 1..Len(valid) |-> valid[i].id], encoded |-> texts,
             calls |-> calls, failed |-> encodeFails, raised |-> raised]
    IN
    /\ handle[h].state = "live"
    /\ misses = <<>> => ~encodeFails
    /\ opsLeft > 0 /\ opsLeft' = opsLeft - 1
    /\ UNCHANGED <<chunkVars, storeVars>>
    /\ lastOp' = Op("embed", h, <<>>, NoneMeta, <<>>, "", NoneVec)
    /\ UNCHANGED <<lockBusy, known>>
    /\ IF misses = <<>>
       THEN \* nothing to embed: return the hits
            /\ lastEmbed' = rec(hits, "")
            /\ embedded' = embedded \cup ValidPairs(chunks)
            /\ UNCHANGED <<indexFile, handle, putLog, cleared>>
       ELSE IF encodeFails
       THEN \* model.encode raises
            /\ lastEmbed' = rec(<<>>, "EncodeError")
            /\ handle' = [handle EXCEPT ![h] = Live(WrittenBack(m, fresh, TRUE))]
            /\ UNCHANGED <<indexFile, putLog, cleared, embedded>>
       ELSE IF lockBusy
       THEN \* the first cache.add sets _cache[key] and then times out in _save_index
            /\ handle' = [handle EXCEPT ![h] = Live(AddAll(m, <<fresh[1]>>))]
            /\ putLog' = putLog \cup PutArgs(<<fresh[1]>>)
            /\ cleared' = cleared \ PutKeys(<<fresh[1]>>)
            /\ lastEmbed' = rec(<<>>, "Timeout")
            /\ UNCHANGED <<indexFile, embedded>>
       ELSE \* every cache.add rewrites the index with the handle's whole _cache
            /\ handle' = [handle EXCEPT ![h] = Live(WrittenBack(m, fresh, FALSE))]
            /\ indexFile' = SavedIndex(indexFile, WrittenBack(m, fresh, FALSE))
            /\ putLog' = putLog \cup PutArgs(fresh)
            /\ cleared' = cleared \ PutKeys(fresh)
            /\ lastEmbed' = rec(Enriched(hits, fresh), "")
            /\ embedded' = embedded \cup ValidPairs(chunks)

InitEngine ==
    /\ indexFile = Absent
    /\ CacheIdle
    /\ ChunkerIdle
    /\ StoreIdle
    /\ opsLeft = MaxEngineOps

NextEngine ==
    \/ \E h \in Handles : Construct(h)
    \/ \E h \in Handles, cs \in ChunkLists, f \in BOOLEAN : EmbedTexts(h, cs, f)
    \/ \E h \in Handles : Clear(h)
    \/ ForeignLock

SpecEngine == InitEngine /\ [][NextEngine]_vars

-----------------------------------------------------------------------------
(* Properties of the engine                                                *)

IdText(chunks) == [i \in DOMAIN chunks |-> <<chunks[i].id, chunks[i].text>>]

\* C2 (as claimed): embed_texts returns the valid input chunks in their
\* input order.
C2_OrderPreserved ==
    (lastOp.op = "embed" /\ lastEmbed.raised = "")
        => IdText(lastEmbed.output) = IdText(SelectSeq(lastEmbed.input, IsValidChunk))

\* C6 (as claimed): when every valid chunk handed to embed_texts was returned
\* by an earlier embed_texts before this engine's cache handle loaded the
\* index (the load not having timed out), and no clear() came in between,
\* the call makes no call to the embedding service.
C6_LaterRunHitsCache ==
    (/\ lastOp.op = "embed"
     /\ ValidPairs(lastEmbed.input) # {}
     /\ ValidPairs(lastEmbed.input) \subseteq known[lastEmbed.h])
        => lastEmbed.calls = 0

\* C14: when the embedding service fails on the cache misses of a call,
\* embed_texts raises the error, returns no chunk, and the cache is as it
\* was, in the handle's memory and on disk.
C14_FailedBatchCommitsNothing ==
    [][ (lastOp'.op = "embed" /\ lastEmbed'.failed)
            => /\ lastEmbed'.raised = "EncodeError"
               /\ lastEmbed'.output = <<>>
               /\ handle' = handle
               /\ indexFile' = indexFile ]_vars

\* C14 witness: the service failed on a call that held a cache hit and a
\* miss, over a cache with an entry on disk.
C14_Witness ==
    /\ lastOp.op = "embed" /\ lastEmbed.failed /\ lastEmbed.raised = "EncodeError"
    /\ Len(lastEmbed.looked) = 2 /\ Len(lastEmbed.encoded) = 1
    /\ indexFile.kind = "index" /\ indexFile.map # EmptyMap
    /\ handle[lastEmbed.h].cache = indexFile.map

\* a chunk that carries id, type and text
HasAllKeys(c) == {"id", "type", "text"} \subseteq c.has

Occurrences(seq, x) == Cardinality({ i \in DOMAIN seq : seq[i] = x })

\* C16: embed_texts, when it returns, returns the input chunks that carry
\* id, type and text, as many times as they were given and each with an
\* embedding; the other chunks are dropped, raise nothing, and are neither
\* looked up in the cache nor sent to the embedding service.
C16_DropsIncompleteChunks ==
    lastOp.op = "embed" =>
        /\ lastEmbed.raised = "" =>
              /\ \A p \in { <<c.id, c.text>> : c \in ChunkPool } :
                     Occurrences(IdText(lastEmbed.output), p)
                         = Occurrences(IdText(SelectSeq(lastEmbed.input, HasAllKeys)), p)
              /\ \A i \in DOMAIN lastEmbed.output : lastEmbed.output[i].embedding # <<>>
        /\ SelectSeq(lastEmbed.input, HasAllKeys) = <<>> => lastEmbed.raised = ""
        /\ lastEmbed.looked =
               [i \in 1..Len(SelectSeq(lastEmbed.input, HasAllKeys)) |->
                   SelectSeq(lastEmbed.input, HasAllKeys)[i].id]
        /\ \A i \in DOMAIN lastEmbed.encoded :
               \E j \in DOMAIN lastEmbed.input :
                   HasAllKeys(lastEmbed.input[j]) /\ lastEmbed.input[j].text = lastEmbed.encoded[i]

\* C16 witness: a call given a complete chunk and one without text has
\* returned the complete one alone, embedded.
C16_Witness ==
    /\ lastOp.op = "embed" /\ lastEmbed.raised = ""
    /\ Len(lastEmbed.input) = 2
    /\ ~HasAllKeys(lastEmbed.input[1]) /\ HasAllKeys(lastEmbed.input[2])
    /\ Len(lastEmbed.output) = 1
    /\ lastEmbed.output[1].id = lastEmbed.input[2].id
    /\ lastEmbed.output[1].embedding # <<>>
    /\ lastEmbed.calls = 1

\* the closed set of chunk types: the values of the ChunkType members
ChunkTypeMembers ==
    { "swagger", "postman", "free_text", "endpoint_description", "parameter",
      "request_body_schema", "response_schema", "enum_test_case",
      "boolean_flag_test_case", "error_code_case" }

\* C17 (as claimed): every complete input chunk whose type is outside the
\* closed set comes back from embed_texts with the generic text type and an
\* embedding, and the cache holds its text under {type: generic text}.
C17_UnknownTypeCoerced ==
    (lastOp.op = "embed" /\ lastEmbed.raised = "")
        => \A i \in DOMAIN lastEmbed.input :
              (HasAllKeys(lastEmbed.input[i]) /\ lastEmbed.input[i].type \notin ChunkTypeMembers)
                  => /\ \E j \in DOMAIN lastEmbed.output :
                            /\ lastEmbed.output[j].id = lastEmbed.input[i].id
                            /\ lastEmbed.output[j].type = ChunkTypeText
                            /\ lastEmbed.output[j].embedding # <<>>
                     /\ CacheGet(handle[lastEmbed.h].cache, lastEmbed.input[i].text,
                                 Dict(<< <<"type", ChunkTypeText>> >>)).found

\* C24 (as claimed): an entry that a clear() took off the on-disk index is
\* not in the on-disk index again until add is called for its key, whatever
\* other handles on the directory do.
C24_ClearedStaysGone == cleared \cap OnDisk(indexFile) = {}

\* C23 (as claimed): a complete input chunk whose type is in the closed set
\* comes back from embed_texts with that type, and the cache holds its text
\* under {type: that type}.
C23_KnownTypeKept ==
    (lastOp.op = "embed" /\ lastEmbed.raised = "")
        => \A i \in DOMAIN lastEmbed.input :
              (HasAllKeys(lastEmbed.input[i]) /\ lastEmbed.input[i].type \in ChunkTypeMembers)
                  => /\ \A j \in DOMAIN lastEmbed.output :
                            lastEmbed.output[j].id = lastEmbed.input[i].id
                                => lastEmbed.output[j].type = lastEmbed.input[i].type
                     /\ CacheGet(handle[lastEmbed.h].cache, lastEmbed.input[i].text,
                                 Dict(<< <<"type", lastEmbed.input[i].type>> >>)).found

-----------------------------------------------------------------------------
(* The specification document                                              *)

\* a $ref string, cut into its "#", "/" and name pieces
RefUser        == <<"#", "/", "components", "/", "schemas", "/", "User">>
RefParamId     == <<"#", "/", "components", "/", "parameters", "/", "Id">>
RefMissing     == <<"#", "/", "components", "/", "schemas", "/", "Nope">>
RefThroughLeaf == <<"#", "/", "info", "/", "title", "/", "x">>
RefNode        == <<"#", "/", "components", "/", "schemas", "/", "Node">>
RefPing        == <<"#", "/", "components", "/", "schemas", "/", "Ping">>
RefPong        == <<"#", "/", "components", "/", "schemas", "/", "Pong">>

ParamFields(name, in_, required, type, description) ==
    [name |-> name, in_ |-> in_, required |-> required, type |-> type,
     description |-> description]

\* what .get() gives on an object that has none of the parameter keys
NoFields == ParamFields("None", "None", "False", "string", "")

DictNode(repr, fields) == [kind |-> "dict", repr |-> repr, fields |-> fields, ref |-> <<>>]
LeafNode(repr)         == [kind |-> "leaf", repr |-> repr, fields |-> NoFields, ref |-> <<>>]
\* a node that is {"$ref": ref}
RefNodeOf(ref) ==
    [kind |-> "dict", repr |-> <<"{'$ref': '">> \o ref \o <<"'}">>, fields |-> NoFields,
     ref |-> ref]

\* The document outside its paths section: the nodes a $ref can walk to,
\* by their path from the root.
Tree ==
    (<<>> :> DictNode(<<"{...}">>, NoFields))
    @@ (<<"info">> :> DictNode(<<"{'title': 'API'}">>, NoFields))
    @@ (<<"info", "title">> :> LeafNode(<<"API">>))
    @@ (<<"components">> :> DictNode(<<"{...}">>, NoFields))
    @@ (<<"components", "schemas">> :> DictNode(<<"{'User': {...}}">>, NoFields))
    @@ (<<"components", "schemas", "User">> :>
            DictNode(<<"{'type': 'object'}">>, NoFields))
    @@ (<<"components", "parameters">> :> DictNode(<<"{'Id': {...}}">>, NoFields))
    @@ (<<"components", "parameters", "Id">> :>
            DictNode(<<"{'name': 'id', ...}">>,
                     ParamFields("id", "path", "True", "string", "")))
    \* schemas that refer to themselves and to each other
    @@ (<<"components", "schemas", "Node">> :> RefNodeOf(RefNode))
    @@ (<<"components", "schemas", "Ping">> :> RefNodeOf(RefPong))
    @@ (<<"components", "schemas", "Pong">> :> RefNodeOf(RefPing))

\* a schema position: absent, {} , an inline schema, or {"$ref": ...}
NoSchema        == [kind |-> "none", repr |-> <<>>, ref |-> <<>>]
InlineSchema    == [kind |-> "inline", repr |-> <<"{'type': 'string'}">>, ref |-> <<>>]
RefSchema(ref)  == [kind |-> "ref", repr |-> <<"{'$ref': ...}">>, ref |-> ref]

\* a parameter entry: inline, or {"$ref": ...}
InlineParam     == [ref |-> <<>>, fields |-> ParamFields("q", "query", "False", "string", "")]
RefParam(ref)   == [ref |-> ref, fields |-> NoFields]

Media(ctype, schema) == [ctype |-> ctype, schema |-> schema]
Response(status, content) ==
    [status |-> status, description |-> "OK", content |-> content]

Operation(opId, params, body, responses) ==
    [operationId |-> opId, summary |-> "List", parameters |-> params,
     requestBody |-> body, responses |-> responses, security |-> <<"bearer">>]

OpPlain   == Operation(<<"listUsers">>, <<>>, <<>>, <<>>)
OpRefs    == Operation(<<>>, <<InlineParam, RefParam(RefParamId)>>,
                       <<Media("application/json", RefSchema(RefUser))>>,
                       <<Response("200", <<Media("application/json", RefSchema(RefUser))>>)>>)
OpParamMissing == Operation(<<>>, <<RefParam(RefMissing)>>, <<>>, <<>>)
OpBodyMissing  == Operation(<<>>, <<>>,
                       <<Media("text/plain", NoSchema),
                         Media("application/json", RefSchema(RefMissing))>>, <<>>)
OpRespMissing  == Operation(<<>>, <<>>, <<>>,
                       <<Response("200", <<Media("application/json", RefSchema(RefMissing))>>)>>)
OpThroughLeaf  == Operation(<<>>, <<RefParam(RefThroughLeaf)>>, <<>>, <<>>)
OpSecondType   == Operation(<<>>, <<>>,
                       <<Media("application/json", InlineSchema),
                         Media("application/xml", RefSchema(RefMissing))>>, <<>>)

Operations ==
    { OpPlain, OpRefs, OpParamMissing, OpBodyMissing, OpRespMissing,
      OpThroughLeaf, OpSecondType }

\* keys of a path item: methods in either case, and keys that are no
\* allow-listed method
MethodKeys == { "get", "POST", "head", "x-internal" }

PathItems ==
    { << <<m, op>> >> : m \in MethodKeys, op \in Operations }
    \cup { << <<"get", OpPlain>>, <<"options", OpPlain>>, <<"delete", OpRefs>> >> }

PathA == <<"/", "users">>
PathB == <<"/", "users", "/", "{id}">>

Documents ==
    { [paths |-> << <<PathA, it>> >>] : it \in PathItems }
    \cup { [paths |-> << <<PathA, it1>>, <<PathB, it2>> >>] : it1, it2 \in PathItems }

-----------------------------------------------------------------------------
(* SwaggerChunker                                                          *)

Instances == {1, 2}

\* str.lower() / str.upper() of a path-item key
Lower(m) ==
    CASE m = "POST" -> "post"
      [] OTHER      -> m

Upper(m) ==
    CASE m = "get"    -> "GET"
      [] m = "post"   -> "POST"
      [] m = "put"    -> "PUT"
      [] m = "delete" -> "DELETE"
      [] m = "patch"  -> "PATCH"
      [] OTHER        -> m

\* the allow-list of _extract_endpoints
AllowedMethods == {"get", "post", "put", "delete", "patch"}

\* the list the method key is looked up in
EndpointMethods == AllowedMethods

\* _extract_endpoints: (method.lower(), path, op) for the allow-listed keys,
\* paths in document order, keys in document order within a path
RECURSIVE ItemEndpoints(_, _)
ItemEndpoints(path, item) ==
    IF item = <<>> THEN <<>>
    ELSE (IF Lower(Head(item)[1]) \in EndpointMethods
          THEN << [method |-> Lower(Head(item)[1]), path |-> path, op |-> Head(item)[2]] >>
          ELSE <<>>)
         \o ItemEndpoints(path, Tail(item))

RECURSIVE PathEndpoints(_)
PathEndpoints(paths) ==
    IF paths = <<>> THEN <<>>
    ELSE ItemEndpoints(Head(paths)[1], Head(paths)[2]) \o PathEndpoints(Tail(paths))

ExtractEndpoints(doc) == PathEndpoints(doc.paths)

\* ref.lstrip("#/")
RECURSIVE LstripRef(_)
LstripRef(ref) ==
    IF ref # <<>> /\ Head(ref) \in {"#", "/"} THEN LstripRef(Tail(ref)) ELSE ref

\* str.split("/")
RECURSIVE SplitAcc(_, _)
SplitAcc(pieces, cur) ==
    IF pieces = <<>> THEN <<cur>>
    ELSE IF Head(pieces) = "/"
         THEN <<cur>> \o SplitAcc(Tail(pieces), "")
         ELSE SplitAcc(Tail(pieces), Head(pieces))

SplitRef(ref) == SplitAcc(ref, "")

Resolved(at)      == [raised |-> "", msg |-> <<>>, at |-> at]
Failed(exc, msg)  == [raised |-> exc, msg |-> msg, at |-> <<>>]

\* the loop of _resolve_ref: result = result.get(part); None raises KeyError
\* naming the ref; .get on a node that is no mapping raises AttributeError
RECURSIVE Walk(_, _, _)
Walk(at, parts, ref) ==
    IF parts = <<>> THEN Resolved(at)
    ELSE IF Tree[at].kind # "dict" THEN Failed("AttributeError", <<>>)
    ELSE IF Append(at, Head(parts)) \notin DOMAIN Tree
         THEN Failed("KeyError", <<"Unable to resolve $ref: ">> \o ref)
         ELSE Walk(Append(at, Head(parts)), Tail(parts), ref)

\* SwaggerChunker._resolve_ref
ResolveRef(ref) == Walk(<<>>, SplitRef(LstripRef(ref)), ref)

Rendered(tokens)          == [raised |-> "", msg |-> <<>>, present |-> TRUE, tokens |-> tokens]
NotRendered(exc, msg)     == [raised |-> exc, msg |-> msg, present |-> FALSE, tokens |-> <<>>]

ParamRepr(f) ==
    <<"{'name': ", f.name, ", 'in': ", f.in_, ", 'required': ", f.required,
      ", 'type': ", f.type, ", 'description': ", f.description, "}">>

\* r when r raised, else r's tokens between pre and post
Wrap(r, pre, post) ==
    IF r.raised # "" THEN r ELSE Rendered(pre \o r.tokens \o post)

\* a then b: the first exception in that order, else the tokens joined by
\* sep (sep only between two non-empty parts)
Join(a, b, sep) ==
    IF a.raised # "" THEN a
    ELSE IF b.raised # "" THEN b
    ELSE Rendered(a.tokens
                  \o (IF a.tokens # <<>> /\ b.tokens # <<>> THEN sep ELSE <<>>)
                  \o b.tokens)

\* the dict built from a resolved parameter: param.get(...) on the node
ParamOfNode(r) ==
    IF r.raised # "" THEN NotRendered(r.raised, r.msg)
    ELSE IF Tree[r.at].kind # "dict" THEN NotRendered("AttributeError", <<>>)
    ELSE Rendered(ParamRepr(Tree[r.at].fields))

\* one parameter of _extract_parameters
ParamEntry(param) ==
    IF param.ref = <<>> THEN Rendered(ParamRepr(param.fields))
    ELSE ParamOfNode(ResolveRef(param.ref))

\* _extract_parameters: the resolved list, or the first exception
RECURSIVE ParamEntries(_)
ParamEntries(params) ==
    IF params = <<>> THEN Rendered(<<>>)
    ELSE Join(ParamEntry(Head(params)), ParamEntries(Tail(params)), <<", ">>)

ExtractParameters(op) == Wrap(ParamEntries(op.parameters), <<"[">>, <<"]">>)

\* the schema a resolved $ref gives
SchemaOfNode(r) ==
    IF r.raised # "" THEN NotRendered(r.raised, r.msg) ELSE Rendered(Tree[r.at].repr)

\* a schema position after `if "$ref" in schema: schema = self._resolve_ref(...)`
SchemaRepr(schema) ==
    IF schema.kind = "ref" THEN SchemaOfNode(ResolveRef(schema.ref))
    ELSE Rendered(schema.repr)

\* _extract_request_body: the first content type that has a schema
RECURSIVE ExtractRequestBodyFrom(_)
ExtractRequestBodyFrom(content) ==
    IF content = <<>> THEN NotRendered("", <<>>)
    ELSE IF Head(content).schema.kind = "none" THEN ExtractRequestBodyFrom(Tail(content))
    ELSE Wrap(SchemaRepr(Head(content).schema),
              <<"{'content_type': ", Head(content).ctype, ", 'schema': ">>, <<"}">>)

ExtractRequestBody(op) == ExtractRequestBodyFrom(op.requestBody)

\* the inner loop of _extract_responses: output[status_code] is set for every
\* media object in turn, the last one stays
RECURSIVE ResponseEntry(_, _, _)
ResponseEntry(resp, content, sofar) ==
    IF content = <<>> \/ sofar.raised # "" THEN sofar
    ELSE ResponseEntry(resp, Tail(content),
             Wrap(SchemaRepr(Head(content).schema),
                  <<resp.status, ": {'description': ", resp.description, ", 'schema': ">>,
                  <<"}">>))

RECURSIVE ResponseEntries(_)
ResponseEntries(responses) ==
    IF responses = <<>> THEN Rendered(<<>>)
    ELSE Join(ResponseEntry(Head(responses), Head(responses).content, Rendered(<<>>)),
              ResponseEntries(Tail(responses)), <<", ">>)

ExtractResponses(op) == Wrap(ResponseEntries(op.responses), <<"{">>, <<"}">>)

\* _extract_security: the scheme names
ExtractSecurity(op) == <<"[">> \o op.security \o <<"]">>

\* path.replace('/', '_')
ReplaceSlash(path) == [i \in DOMAIN path |-> IF path[i] = "/" THEN "_" ELSE path[i]]

\* operation.get("operationId", f"{method}_{path.replace('/', '_')}")
OperationId(e) ==
    IF e.op.operationId # <<>> THEN e.op.operationId
    ELSE <<e.method, "_">> \o ReplaceSlash(e.path)

BaseText(e, parameters, body, responses) ==
    <<Upper(e.method), " ">> \o e.path \o <<"\n\n", e.op.summary, "\n\nParameters:\n">>
    \o parameters.tokens \o <<"\n\n">>
    \o (IF body.present THEN <<"Request Body:\n">> \o body.tokens \o <<"\n\n">> ELSE <<>>)
    \o <<"Responses:\n">> \o responses.tokens \o <<"\n\nSecurity: ">>
    \o ExtractSecurity(e.op)

\* _generate_chunk_id: the first 16 hex digits of SHA-256 of the base text;
\* the digest stands for the text it was computed from
GenerateChunkId(base, e) == [sha256 |-> base]

\* the chunk dict built for one endpoint
MakeChunk(e, base) ==
    [id |-> GenerateChunkId(base, e),
     type |-> "swagger",
     text |-> Strip(base),
     metadata |-> [chunk_type |-> "swagger", chunk_origin |-> "swagger",
                   source_file |-> "api.yaml",
                   method |-> e.method, path |-> e.path, operation_id |-> OperationId(e)]]

Extracted(chunks)          == [raised |-> "", msg |-> <<>>, chunks |-> chunks]
Aborted(exc, msg, chunks)  == [raised |-> exc, msg |-> msg, chunks |-> chunks]

\* one iteration of the loop of extract_chunks: the three extractions in
\* their order, then the chunk appended to self.chunks
Iteration(e, parameters, body, responses, chunks) ==
    IF parameters.raised # "" THEN Aborted(parameters.raised, parameters.msg, chunks)
    ELSE IF body.raised # "" THEN Aborted(body.raised, body.msg, chunks)
    ELSE IF responses.raised # "" THEN Aborted(responses.raised, responses.msg, chunks)
    ELSE Extracted(Append(chunks, MakeChunk(e, BaseText(e, parameters, body, responses))))

ExtractOne(e, chunks) ==
    Iteration(e, ExtractParameters(e.op), ExtractRequestBody(e.op),
              ExtractResponses(e.op), chunks)

\* the loop of extract_chunks over the endpoints, appending to self.chunks
RECURSIVE ExtractLoop(_, _)
RECURSIVE Continue(_, _)
Continue(endpoints, r) ==
    IF r.raised # "" THEN r ELSE ExtractLoop(endpoints, r.chunks)

ExtractLoop(endpoints, chunks) ==
    IF endpoints = <<>> THEN Extracted(chunks)
    ELSE Continue(Tail(endpoints), ExtractOne(Head(endpoints), chunks))

NewChunker == [chunks |-> <<>>, calls |-> 0, raised |-> "", result |-> <<>>]

\* SwaggerChunker.extract_chunks on instance i
ExtractChunks(i) ==
    LET r == ExtractLoop(ExtractEndpoints(swagger), chunker[i].chunks) IN
    /\ opsLeft > 0 /\ opsLeft' = opsLeft - 1
    /\ chunker' = [chunker EXCEPT ![i] =
                     [chunks |-> r.chunks, calls |-> @.calls + 1, raised |-> r.raised,
                      result |-> IF r.raised = "" THEN r.chunks ELSE <<>>]]
    /\ lastExtract' = [i |-> i, raised |-> r.raised, msg |-> r.msg,
                       result |-> IF r.raised = "" THEN r.chunks ELSE <<>>]
    /\ UNCHANGED <<swagger, walk, cacheVars, engineVars, storeVars>>

InitChunker ==
    /\ indexFile = Absent
    /\ CacheIdle
    /\ StoreIdle
    /\ opsLeft = MaxExtracts
    /\ swagger \in Documents
    /\ chunker = [i \in Instances |-> NewChunker]
    /\ lastExtract = NoExtract
    /\ walk = NoWalk

NextChunker == \E i \in Instances : ExtractChunks(i)

SpecChunker == InitChunker /\ [][NextChunker]_vars

-----------------------------------------------------------------------------
(* extract_chunks step by step: the $ref resolutions of one call           *)

\* operations whose parameter, request body or response refers into the
\* schemas that refer to themselves or to each other
OpCycleParam == Operation(<<>>, <<RefParam(RefNode)>>, <<>>, <<>>)
OpCycleBody  == Operation(<<>>, <<>>, <<Media("application/json", RefSchema(RefPing))>>, <<>>)
OpCycleResp  == Operation(<<>>, <<>>, <<>>,
                    <<Response("200", <<Media("application/json", RefSchema(RefPong)),
                                        Media("application/xml", RefSchema(RefNode))>>)>>)

CycleOperations == {OpCycleParam, OpCycleBody, OpCycleResp}

CycleDocuments ==
    { [paths |-> << <<PathA, << <<"get", op1>>, <<"head", OpCycleBody>>, <<"POST", op2>> >> >> >>] :
          op1 \in CycleOperations, op2 \in Operations \cup CycleOperations }

PendingRef(ref, use) == [ref |-> ref, use |-> use]

\* the $refs _extract_parameters hands to _resolve_ref, in order
RECURSIVE ParamRefs(_)
ParamRefs(params) ==
    IF params = <<>> THEN <<>>
    ELSE (IF Head(params).ref # <<>> THEN <<PendingRef(Head(params).ref, "param")>> ELSE <<>>)
         \o ParamRefs(Tail(params))

\* the $ref _extract_request_body hands to _resolve_ref: that of the first
\* content type with a schema
RECURSIVE BodyRefs(_)
BodyRefs(content) ==
    IF content = <<>> THEN <<>>
    ELSE IF Head(content).schema.kind = "none" THEN BodyRefs(Tail(content))
    ELSE IF Head(content).schema.kind = "ref"
         THEN <<PendingRef(Head(content).schema.ref, "schema")>>
         ELSE <<>>

\* the $refs _extract_responses hands to _resolve_ref: every media object's
RECURSIVE MediaRefs(_)
MediaRefs(content) ==
    IF content = <<>> THEN <<>>
    ELSE (IF Head(content).schema.kind = "ref"
          THEN <<PendingRef(Head(content).schema.ref, "schema")>> ELSE <<>>)
         \o MediaRefs(Tail(content))

RECURSIVE ResponseRefs(_)
ResponseRefs(responses) ==
    IF responses = <<>> THEN <<>>
    ELSE MediaRefs(Head(responses).content) \o ResponseRefs(Tail(responses))

\* the $refs of one iteration of the loop of extract_chunks
OperationRefs(op) == ParamRefs(op.parameters) \o BodyRefs(op.requestBody) \o ResponseRefs(op.responses)

RECURSIVE EndpointRefs(_)
EndpointRefs(endpoints) ==
    IF endpoints = <<>> THEN <<>>
    ELSE OperationRefs(Head(endpoints).op) \o EndpointRefs(Tail(endpoints))

\* what is left to resolve once _resolve_ref has returned the node at `at`:
\* the callers use the returned node as it is and never look for a $ref in it
PendingAfterFollowing(at, pending) ==
    IF Tree[at].ref # <<>> THEN <<PendingRef(Tree[at].ref, "schema")>> \o pending ELSE pending

PendingAfter(at, pending) == pending

\* extract_chunks is called: the loop over _extract_endpoints() starts
BeginExtract ==
    /\ walk.pc = "idle"
    /\ walk' = [NoWalk EXCEPT !.pc = "extracting",
                              !.pending = EndpointRefs(ExtractEndpoints(swagger))]
    /\ UNCHANGED <<swagger, chunker, lastExtract, cacheVars, engineVars, storeVars, opsLeft>>

\* _resolve_ref(ref) is called: ref_path = ref.lstrip("#/").split("/"), result = self.swagger
BeginResolve ==
    /\ walk.pc = "extracting" /\ walk.pending # <<>>
    /\ walk' = [walk EXCEPT !.pc = "walking",
                            !.ref = Head(walk.pending).ref,
                            !.use = Head(walk.pending).use,
                            !.parts = SplitRef(LstripRef(Head(walk.pending).ref)),
                            !.at = <<>>,
                            !.pending = Tail(walk.pending)]
    /\ UNCHANGED <<swagger, chunker, lastExtract, cacheVars, engineVars, storeVars, opsLeft>>

\* one iteration of `for part in ref_path`
ResolveStep ==
    /\ walk.pc = "walking" /\ walk.parts # <<>>
    /\ walk' =
          IF Tree[walk.at].kind # "dict"
          THEN [walk EXCEPT !.pc = "raised", !.raised = "AttributeError"]
          ELSE IF Append(walk.at, Head(walk.parts)) \notin DOMAIN Tree
          THEN [walk EXCEPT !.pc = "raised", !.raised = "KeyError"]
          ELSE [walk EXCEPT !.at = Append(walk.at, Head(walk.parts)),
                            !.parts = Tail(walk.parts)]
    /\ UNCHANGED <<swagger, chunker, lastExtract, cacheVars, engineVars, storeVars, opsLeft>>

\* `return result`, and the caller's use of the node
ResolveReturn ==
    /\ walk.pc = "walking" /\ walk.parts = <<>>
    /\ walk' =
          IF walk.use = "param" /\ Tree[walk.at].kind # "dict"
          THEN [walk EXCEPT !.pc = "raised", !.raised = "AttributeError"]
          ELSE [walk EXCEPT !.pc = "extracting",
                            !.pending = PendingAfter(walk.at, walk.pending)]
    /\ UNCHANGED <<swagger, chunker, lastExtract, cacheVars, engineVars, storeVars, opsLeft>>

\* the loop over the endpoints is over: `return self.chunks`
FinishExtract ==
    /\ walk.pc = "extracting" /\ walk.pending = <<>>
    /\ walk' = [walk EXCEPT !.pc = "returned"]
    /\ UNCHANGED <<swagger, chunker, lastExtract, cacheVars, engineVars, storeVars, opsLeft>>

InitResolve ==
    /\ indexFile = Absent
    /\ CacheIdle
    /\ StoreIdle
    /\ opsLeft = 0
    /\ swagger \in CycleDocuments
    /\ chunker = [i \in Instances |-> NewChunker]
    /\ lastExtract = NoExtract
    /\ walk = NoWalk

NextResolve ==
    \/ BeginExtract
    \/ BeginResolve
    \/ ResolveStep
    \/ ResolveReturn
    \/ FinishExtract

\* the interpreter runs the call on: every step that can be taken is taken
SpecResolve == InitResolve /\ [][NextResolve]_vars /\ WF_vars(NextResolve)

-----------------------------------------------------------------------------
(* Properties of the chunker                                               *)

\* the refs of the documents that name no node of the document
BrokenRefs == {RefMissing, RefThroughLeaf}

\* a path-item key that is one of GET, POST, PUT, DELETE, PATCH
IsAllowListed(key) ==
    key \in {"get", "GET", "post", "POST", "put", "PUT", "delete", "DELETE",
             "patch", "PATCH"}

\* the (path, key, operation) triples of a document, in document order
RECURSIVE Flatten(_)
Flatten(paths) ==
    IF paths = <<>> THEN <<>>
    ELSE [k \in DOMAIN Head(paths)[2] |->
             [path |-> Head(paths)[1], key |-> Head(paths)[2][k][1],
              op |-> Head(paths)[2][k][2]]]
         \o Flatten(Tail(paths))

KeyAllowed(t) == IsAllowListed(t.key)

\* the allow-listed operations of the document, in document order
AllowListed(doc) == SelectSeq(Flatten(doc.paths), KeyAllowed)

\* the schemas of the request body that have one
HasSchema(media) == media.schema.kind # "none"

\* the broken refs the extractor meets in an operation: in a parameter, in
\* the request body's schema (the first content type that has one), in a
\* response schema
BrokenRefsOf(op) ==
    { op.parameters[i].ref : i \in DOMAIN op.parameters }
    \cup (IF SelectSeq(op.requestBody, HasSchema) = <<>> THEN {}
          ELSE { Head(SelectSeq(op.requestBody, HasSchema)).schema.ref })
    \cup UNION { { op.responses[i].content[j].schema.ref :
                     j \in DOMAIN op.responses[i].content } : i \in DOMAIN op.responses }

CarriedBrokenRefs(doc) ==
    BrokenRefs \cap UNION { BrokenRefsOf(AllowListed(doc)[i].op) : i \in DOMAIN AllowListed(doc) }

\* C7 (as claimed): when an allow-listed operation carries a $ref with a
\* missing segment, extract_chunks raises the resolution error (KeyError)
\* whose message names such a ref; it returns no chunk list.
C7_MissingRefRaisesNamed ==
    (lastExtract.i # 0 /\ CarriedBrokenRefs(swagger) # {})
        => /\ lastExtract.raised = "KeyError"
           /\ \E ref \in CarriedBrokenRefs(swagger) :
                  lastExtract.msg = <<"Unable to resolve $ref: ">> \o ref

AllChunks == UNION { { chunker[i].result[k] : k \in DOMAIN chunker[i].result } : i \in Instances }

\* C8 (as claimed): any two extractions of the document that returned give
\* the same chunk sequence, and chunks with the same text have the same id.
C8_ExtractionDeterministic ==
    /\ \A i, j \in Instances :
          (/\ chunker[i].calls > 0 /\ chunker[i].raised = ""
           /\ chunker[j].calls > 0 /\ chunker[j].raised = "")
              => chunker[i].result = chunker[j].result
    /\ \A c, d \in AllChunks : c.text = d.text => c.id = d.id

\* C21, progress: inside _resolve_ref every iteration shortens what is left
\* of the ref's path, and a returned resolution adds nothing to resolve.
C21_ResolutionShrinks ==
    /\ (walk.pc = "walking" /\ walk'.pc = "walking") => Len(walk'.parts) < Len(walk.parts)
    /\ (walk.pc = "walking" /\ walk'.pc = "extracting")
          => Len(walk'.pending) <= Len(walk.pending)

\* C21: extract_chunks ends, with its list or an exception, on every
\* document, those whose schemas refer to themselves or each other included.
C21_ExtractionTerminates ==
    /\ [][C21_ResolutionShrinks]_vars
    /\ <>(walk.pc \in {"returned", "raised"})

\* C21 witness: extract_chunks has returned on a document whose operations
\* refer to the self-referring schema and to the two that refer to each other.
C21_Witness ==
    /\ walk.pc = "returned"
    /\ walk.ref \in {RefNode, RefPing, RefPong}
    /\ Tree[walk.at].ref # <<>>
    /\ \E i, j \in DOMAIN EndpointRefs(ExtractEndpoints(swagger)) :
          /\ EndpointRefs(ExtractEndpoints(swagger))[i].ref = RefNode
          /\ EndpointRefs(ExtractEndpoints(swagger))[j].ref \in {RefPing, RefPong}

\* C25 (as claimed): a call of extract_chunks on an instance whose previous
\* call returned returns the same chunk sequence as that call.
C25_SecondCallSameChunks ==
    [][ \A i \in Instances :
          (/\ lastExtract'.i = i /\ chunker'[i].calls = chunker[i].calls + 1
           /\ chunker[i].calls >= 1
           /\ chunker[i].raised = "" /\ chunker'[i].raised = "")
              => chunker'[i].result = chunker[i].result ]_vars

\* the method a path-item key stands for, as the metadata gives it
MethodOf(key) ==
    CASE key \in {"get", "GET"}       -> "get"
      [] key \in {"post", "POST"}     -> "post"
      [] key \in {"put", "PUT"}       -> "put"
      [] key \in {"delete", "DELETE"} -> "delete"
      [] key \in {"patch", "PATCH"}   -> "patch"
      [] OTHER                        -> key

\* C9 (as claimed): an extraction that returns gives exactly one chunk per
\* allow-listed (path, method) pair, in document order, each carrying that
\* operation's method, path and (explicit or derived) operation id.
C9_OneChunkPerOperation ==
    (lastExtract.i # 0 /\ lastExtract.raised = "")
        => /\ Len(lastExtract.result) = Len(AllowListed(swagger))
           /\ \A k \in DOMAIN lastExtract.result :
                 /\ k \in DOMAIN AllowListed(swagger)
                 /\ lastExtract.result[k].metadata.method = MethodOf(AllowListed(swagger)[k].key)
                 /\ lastExtract.result[k].metadata.path = AllowListed(swagger)[k].path
                 /\ lastExtract.result[k].metadata.operation_id # <<>>
                 /\ (AllowListed(swagger)[k].op.operationId # <<>> =>
                        lastExtract.result[k].metadata.operation_id
                            = AllowListed(swagger)[k].op.operationId)

-----------------------------------------------------------------------------
(* VectorStore                                                             *)

\* an optional list argument: None, or a list
NoList       == [given |-> FALSE, items |-> <<>>]
ListOf(items) == [given |-> TRUE, items |-> items]

\* `x or default`, `if x and ...`: None and the empty list are both falsy
Truthy(arg) == arg.given /\ arg.items # <<>>

\* the i-th document, embedding, caller id and caller metadata of a call
DocumentsOf(n)  == [i \in 1..n |-> [doc |-> i]]
EmbeddingsOf(n) == [i \in 1..n |-> <<i, 0>>]
CallerIds(n)    == [i \in 1..n |-> [uuid |-> 0, caller |-> i]]
CallerMetas(n)  == [i \in 1..n |-> [chunk_type |-> "swagger"]]

Lengths == 0..MaxDocs

OptionalIds   == {NoList} \cup { ListOf(CallerIds(n)) : n \in Lengths }
OptionalMetas == {NoList} \cup { ListOf(CallerMetas(n)) : n \in Lengths }

\* str(uuid4()): a fresh value
Uuid(n) == [uuid |-> n, caller |-> 0]

\* `ids or [str(uuid4()) for _ in documents]`
IdsOrFresh(ids, documents) ==
    IF Truthy(ids) THEN ids.items ELSE [i \in DOMAIN documents |-> Uuid(uuidNext + i - 1)]

\* `metadatas[i] if metadatas and i < len(metadatas) else {}`, enriched with
\* the defaults under the caller's values
EnrichedMeta(metadatas, i, fresh) ==
    IF Truthy(metadatas) /\ i <= Len(metadatas.items)
    THEN [chunk_type |-> metadatas.items[i].chunk_type, chunk_origin |-> "unknown",
          source_file |-> "unknown", hash_id |-> fresh]
    ELSE [chunk_type |-> "text", chunk_origin |-> "unknown",
          source_file |-> "unknown", hash_id |-> fresh]

\* values uuid4() gives in one call: first the ids, then one hash per document
UuidsUsed(ids, documents) ==
    (IF Truthy(ids) THEN 0 ELSE Len(documents)) + Len(documents)

\* the records collection.add / upsert receives
RecordsOf(documents, embeddings, metadatas, ids) ==
    [i \in DOMAIN documents |->
        [id |-> IdsOrFresh(ids, documents)[i],
         document |-> documents[i],
         embedding |-> embeddings[i],
         metadata |-> EnrichedMeta(metadatas, i,
                          Uuid(uuidNext + UuidsUsed(ids, documents) - Len(documents) + i - 1))]]

\* client.get_or_create_collection: the database after it
GetOrCreate(name, fresh) ==
    IF db[name].exists THEN db
    ELSE [db EXCEPT ![name] = [exists |-> TRUE, ident |-> fresh, records |-> <<>>]]

\* _load_or_create_collection: the database and the handle cache after it;
\* the database is asked only when the name is not cached
IsCachedNever(name) == FALSE

IsCached(name) == collections[name] # 0

LoadedDb(name, fresh) ==
    IF IsCached(name) THEN db ELSE GetOrCreate(name, fresh)

\* the calls of client.get_or_create_collection so far
LoadedLoads(name) ==
    IF IsCached(name) THEN loads ELSE [loads EXCEPT ![name] = @ + 1]

LoadedCollections(name, fresh) ==
    IF IsCached(name) THEN collections
    ELSE [collections EXCEPT ![name] = GetOrCreate(name, fresh)[name].ident]

StoreCall(op, name, documents, embeddings, metadatas, ids, raised) ==
    [op |-> op, name |-> name, nDocs |-> Len(documents), nEmb |-> Len(embeddings),
     nMeta |-> Len(metadatas.items), nIds |-> Len(ids.items),
     metaGiven |-> metadatas.given, idsGiven |-> ids.given, raised |-> raised,
     queries |-> <<>>, n |-> 0, result |-> <<>>]

\* a call that takes no document lists, and what it returned
StoreResult(op, name, raised, result) ==
    [NoStore EXCEPT !.op = op, !.name = name, !.raised = raised, !.result = result]

\* VectorStore.add_documents
AddDocuments(name, documents, embeddings, metadatas, ids) ==
    LET fresh == uuidNext + UuidsUsed(ids, documents) IN
    /\ opsLeft > 0 /\ opsLeft' = opsLeft - 1
    /\ UNCHANGED <<cacheVars, engineVars, chunkVars>>
    /\ IF Len(documents) # Len(embeddings)
       THEN \* "Mismatch: documents and embeddings count."
            /\ lastStore' = StoreCall("add", name, documents, embeddings, metadatas, ids,
                                      "ValueError")
            /\ UNCHANGED <<db, collections, uuidNext, loads>>
       ELSE IF Len(IdsOrFresh(ids, documents)) # Len(documents)
       THEN \* "Mismatch: documents and IDs count."
            /\ lastStore' = StoreCall("add", name, documents, embeddings, metadatas, ids,
                                      "ValueError")
            /\ uuidNext' = uuidNext + (IF Truthy(ids) THEN 0 ELSE Len(documents))
            /\ UNCHANGED <<db, collections, loads>>
       ELSE \* collection.add(documents, embeddings, enriched_metadatas, ids)
            /\ db' = [LoadedDb(name, fresh) EXCEPT ![name].records =
                         @ \o RecordsOf(documents, embeddings, metadatas, ids)]
            /\ collections' = LoadedCollections(name, fresh)
            /\ loads' = LoadedLoads(name)
            /\ uuidNext' = fresh + 1
            /\ lastStore' = StoreCall("add", name, documents, embeddings, metadatas, ids, "")

\* self.embedding_function(documents): one vector per document
EmbeddingFunction(documents) == [i \in DOMAIN documents |-> <<documents[i].doc, 1>>]

\* collection.upsert: a record whose id is stored replaces it, another is added
UpsertOne(records, r) ==
    IF \E i \in DOMAIN records : records[i].id = r.id
    THEN [i \in DOMAIN records |-> IF records[i].id = r.id THEN r ELSE records[i]]
    ELSE Append(records, r)

RECURSIVE Upserted(_, _)
Upserted(records, new) ==
    IF new = <<>> THEN records ELSE Upserted(UpsertOne(records, Head(new)), Tail(new))

\* uuidNext after _load_or_create_collection: a created collection takes an identity
LoadedUuid(name) ==
    IF ~IsCached(name) /\ ~db[name].exists THEN uuidNext + 1 ELSE uuidNext

\* VectorStore.upsert_embeddings
UpsertEmbeddings(name, documents, metadatas, ids) ==
    LET fresh      == uuidNext + UuidsUsed(ids, documents)
        embeddings == EmbeddingFunction(documents)
    IN
    /\ opsLeft > 0 /\ opsLeft' = opsLeft - 1
    /\ UNCHANGED <<cacheVars, engineVars, chunkVars>>
    /\ IF documents = <<>>
       THEN \* "No documents provided for upsert.": return
            /\ lastStore' = StoreCall("upsert", name, documents, embeddings, metadatas, ids, "")
            /\ UNCHANGED <<db, collections, uuidNext, loads>>
       ELSE IF Len(IdsOrFresh(ids, documents)) # Len(documents)
       THEN \* "Mismatch: documents and IDs count."
            /\ lastStore' = StoreCall("upsert", name, documents, embeddings, metadatas, ids,
                                      "ValueError")
            /\ uuidNext' = uuidNext + (IF Truthy(ids) THEN 0 ELSE Len(documents))
            /\ UNCHANGED <<db, collections, loads>>
       ELSE \* collection.upsert(documents, embeddings, enriched_metadatas, ids)
            /\ db' = [LoadedDb(name, fresh) EXCEPT ![name].records =
                         Upserted(@, RecordsOf(documents, embeddings, metadatas, ids))]
            /\ collections' = LoadedCollections(name, fresh)
            /\ loads' = LoadedLoads(name)
            /\ uuidNext' = fresh + 1
            /\ lastStore' = StoreCall("upsert", name, documents, embeddings, metadatas, ids, "")

\* collection.count()
CollectionCount(c) == Len(c.records)

Min(a, b) == IF a < b THEN a ELSE b

\* the matches list query_similar builds for one query text out of the
\* database's answer (the ranking by distance is not modelled: the first n
\* stored records stand for the n nearest)
Matches(records, n) ==
    [j \in 1..Min(n, Len(records)) |->
        [id |-> records[j].id, document |-> records[j].document,
         metadata |-> records[j].metadata]]

\* collection.query when n_results exceeds the number of stored records
\* (an empty collection included): the duckdb-backed database the store is
\* configured for raises, other builds of the database return what there is
QueryError(count, n, strict) ==
    IF ~strict \/ n <= count THEN ""
    ELSE IF count = 0 THEN "NoIndexException" ELSE "NotEnoughElementsException"

\* VectorStore.query_similar
QuerySimilar(name, queryTexts, n, strict) ==
    LET records == LoadedDb(name, uuidNext)[name].records
        raised  == QueryError(Len(records), n, strict)
    IN
    /\ opsLeft > 0 /\ opsLeft' = opsLeft - 1
    /\ UNCHANGED <<cacheVars, engineVars, chunkVars>>
    /\ db' = LoadedDb(name, uuidNext)
    /\ collections' = LoadedCollections(name, uuidNext)
    /\ loads' = LoadedLoads(name)
    /\ uuidNext' = LoadedUuid(name)
    /\ lastStore' =
          [StoreResult("query", name, raised,
               IF raised # "" THEN <<>>
               ELSE [i \in DOMAIN queryTexts |->
                        [query |-> queryTexts[i], matches |-> Matches(records, n)]])
           EXCEPT !.queries = queryTexts, !.n = n]

\* collection.delete(where={}): every record of the collection goes
DeletedNone(records) == records

Deleted(records) == <<>>

\* VectorStore.clear
ClearCollection(name) ==
    /\ opsLeft > 0 /\ opsLeft' = opsLeft - 1
    /\ UNCHANGED <<cacheVars, engineVars, chunkVars>>
    /\ db' = [LoadedDb(name, uuidNext) EXCEPT ![name].records = Deleted(@)]
    /\ collections' = LoadedCollections(name, uuidNext)
    /\ loads' = LoadedLoads(name)
    /\ uuidNext' = LoadedUuid(name)
    /\ lastStore' = StoreResult("clear", name, "", <<>>)

\* VectorStore.reset_collection: client.delete_collection, then the handle
\* is popped from _collections. missingRaises: what delete_collection does
\* for a name the database does not hold.
ResetCollection(name, missingRaises) ==
    /\ opsLeft > 0 /\ opsLeft' = opsLeft - 1
    /\ UNCHANGED <<cacheVars, engineVars, chunkVars>>
    /\ UNCHANGED uuidNext
    /\ IF db[name].exists
       THEN /\ db' = [db EXCEPT ![name] = NoCollection]
            /\ collections' = [collections EXCEPT ![name] = 0]
            /\ loads' = [loads EXCEPT ![name] = 0]
            /\ lastStore' = StoreResult("reset", name, "", <<>>)
       ELSE IF missingRaises
       THEN /\ lastStore' = StoreResult("reset", name, "CollectionNotFound", <<>>)
            /\ UNCHANGED <<db, collections, loads>>
       ELSE /\ collections' = [collections EXCEPT ![name] = 0]
            /\ loads' = [loads EXCEPT ![name] = 0]
            /\ lastStore' = StoreResult("reset", name, "", <<>>)
            /\ UNCHANGED db

\* client.list_collections(): the names of the collections the database holds
NameOrder == <<"swagger_embeddings", "postman_embeddings">>
IsHeld(name) == db[name].exists
Listed == SelectSeq(NameOrder, IsHeld)

\* VectorStore.list_collections
ListCollections ==
    /\ opsLeft > 0 /\ opsLeft' = opsLeft - 1
    /\ UNCHANGED <<cacheVars, engineVars, chunkVars>>
    /\ lastStore' = StoreResult("list", "", "", Listed)
    /\ UNCHANGED <<db, collections, uuidNext, loads>>

\* VectorStore.size
Size(name) ==
    /\ opsLeft > 0 /\ opsLeft' = opsLeft - 1
    /\ UNCHANGED <<cacheVars, engineVars, chunkVars>>
    /\ db' = LoadedDb(name, uuidNext)
    /\ collections' = LoadedCollections(name, uuidNext)
    /\ loads' = LoadedLoads(name)
    /\ uuidNext' = LoadedUuid(name)
    /\ lastStore' = StoreResult("size", name, "",
                                <<CollectionCount(LoadedDb(name, uuidNext)[name])>>)

\* query_texts and n_results handed to query_similar
QueryLists == { <<"q1">>, <<"q2", "q1">> }
ResultCounts == 1..MaxResults

InitStore ==
    /\ indexFile = Absent
    /\ CacheIdle
    /\ ChunkerIdle
    /\ StoreIdle
    /\ opsLeft = MaxStoreOps

NextStore ==
    \/ \E name \in CollectionNames, nd \in Lengths, ne \in Lengths,
          metadatas \in OptionalMetas, ids \in OptionalIds :
           AddDocuments(name, DocumentsOf(nd), EmbeddingsOf(ne), metadatas, ids)
    \/ \E name \in CollectionNames, nd \in Lengths,
          metadatas \in OptionalMetas, ids \in OptionalIds :
           UpsertEmbeddings(name, DocumentsOf(nd), metadatas, ids)
    \/ \E name \in CollectionNames, q \in QueryLists, n \in ResultCounts, strict \in BOOLEAN :
           QuerySimilar(name, q, n, strict)
    \/ \E name \in CollectionNames : ClearCollection(name)
    \/ \E name \in CollectionNames, missingRaises \in BOOLEAN :
           ResetCollection(name, missingRaises)
    \/ ListCollections
    \/ \E name \in CollectionNames : Size(name)

SpecStore == InitStore /\ [][NextStore]_vars

-----------------------------------------------------------------------------
(* Properties of the vector store                                          *)

\* C5 (as claimed): an add whose embeddings differ in number from its
\* documents, or whose supplied ids differ in number from its documents,
\* raises the contract error and leaves every collection as it was.
C5_MismatchWritesNothing ==
    [][ (/\ lastStore'.op = "add"
         /\ \/ lastStore'.nDocs # lastStore'.nEmb
            \/ lastStore'.idsGiven /\ lastStore'.nIds # lastStore'.nDocs)
            => (lastStore'.raised = "ValueError" /\ db' = db) ]_vars

\* C15 (as claimed): an add or upsert whose caller-supplied (non-empty)
\* metadatas list differs in length from its documents fails with the
\* contract error and writes nothing.
C15_MetadatasMismatchRejected ==
    [][ (/\ lastStore'.op \in {"add", "upsert"}
         /\ lastStore'.metaGiven /\ lastStore'.nMeta > 0
         /\ lastStore'.nMeta # lastStore'.nDocs)
            => (lastStore'.raised = "ValueError" /\ db' = db) ]_vars

\* C18 (as claimed): when reset_collection of a collection the store holds
\* returns, the collection is listed by list_collections, holds no record,
\* and no handle is cached for it.
C18_ResetRecreates ==
    [][ (/\ lastStore'.op = "reset" /\ lastStore'.raised = ""
         /\ db[lastStore'.name].exists)
            => /\ \E i \in DOMAIN Listed' : Listed'[i] = lastStore'.name
               /\ CollectionCount(db'[lastStore'.name]) = 0
               /\ collections'[lastStore'.name] = 0 ]_vars

\* C19: when clear returns, the collection holds no record, is listed by
\* list_collections with the identity it had, and the handle cached for the
\* name before the call is the one cached after it.
C19_ClearKeepsIdentity ==
    [][ lastStore'.op = "clear"
            => /\ lastStore'.raised = ""
               /\ CollectionCount(db'[lastStore'.name]) = 0
               /\ \E i \in DOMAIN Listed' : Listed'[i] = lastStore'.name
               /\ db[lastStore'.name].exists
                     => db'[lastStore'.name].ident = db[lastStore'.name].ident
               /\ collections[lastStore'.name] # 0
                     => collections'[lastStore'.name] = collections[lastStore'.name]
               /\ collections'[lastStore'.name] = db'[lastStore'.name].ident ]_vars

\* C19 witness: documents were added to a collection and clear has emptied
\* it; the handle cached by the add is still the one in the cache.
C19_Witness ==
    /\ lastStore.op = "clear" /\ lastStore.raised = ""
    /\ opsLeft = MaxStoreOps - 2
    /\ uuidNext >= 3
    /\ db[lastStore.name].exists /\ db[lastStore.name].records = <<>>
    /\ collections[lastStore.name] = db[lastStore.name].ident
    /\ \A other \in CollectionNames \ {lastStore.name} : ~db[other].exists

\* C20 (as claimed): query_similar raises nothing and returns one entry per
\* query text, in the order of query_texts, each with at most n_results
\* matches, and with no match when the collection holds no record.
C20_QueryNeverFails ==
    lastStore.op = "query"
        => /\ lastStore.raised = ""
           /\ Len(lastStore.result) = Len(lastStore.queries)
           /\ \A i \in DOMAIN lastStore.result :
                  /\ lastStore.result[i].query = lastStore.queries[i]
                  /\ Len(lastStore.result[i].matches) <= lastStore.n
                  /\ CollectionCount(db[lastStore.name]) = 0
                        => lastStore.result[i].matches = <<>>

\* C22, one load: between two resets of a name the store asks the database
\* for the collection at most once.
C22_LoadedOnce == \A name \in CollectionNames : loads[name] <= 1

\* C22, reuse: a call on a name whose handle is cached leaves that handle in
\* the cache, unless the call is the reset of that name.
C22_CachedHandleReused ==
    \A name \in CollectionNames :
        (collections[name] # 0 /\ ~(lastStore'.op = "reset" /\ lastStore'.name = name))
            => collections'[name] = collections[name]

\* C22, no stale handle: a cached handle is the handle of a collection the
\* database holds, and after reset_collection returns none is cached.
C22_NoStaleHandle ==
    /\ \A name \in CollectionNames :
          collections[name] # 0
              => (db[name].exists /\ db[name].ident = collections[name])
    /\ (lastStore.op = "reset" /\ lastStore.raised = "") => collections[lastStore.name] = 0

\* C22: the collection cache of one store handle.
C22_CollectionCachedOnce ==
    /\ [](C22_LoadedOnce /\ C22_NoStaleHandle)
    /\ [][C22_CachedHandleReused]_vars

\* C22 witness: documents were added to a collection and size() then counted
\* them, with one load of the collection between the two calls.
C22_Witness ==
    /\ lastStore.op = "size" /\ lastStore.result # <<0>>
    /\ opsLeft = MaxStoreOps - 2
    /\ loads[lastStore.name] = 1
    /\ collections[lastStore.name] = db[lastStore.name].ident

====
